---- MODULE Spec2Model ----
(***************************************************************************)
(* A model of discordplus/classes.py: the filtered event waits of BotPlus  *)
(* (confirm, get_reaction, get_answer with the filters check_reaction and  *)
(* check_message), the vote webhook of API, and the cog registry of        *)
(* BotPlus (load_cog, cogs_status).                                        *)
(*                                                                         *)
(* A coroutine is cut at its awaits: each action is one run of code        *)
(* between two suspension points of the event loop.  Events (reactions,    *)
(* messages) are delivered one at a time, as Client.dispatch does, and     *)
(* are seen by a wait only while its listener is registered.               *)
(***************************************************************************)
EXTENDS Integers, Sequences, FiniteSets, TLC

\* ------------------------------------------------------------------ bounds
\* Events (reactions or messages) the environment produces during one call.
MaxEvents == 2
\* Requests the webhook receives.
MaxRequests == 2
\* Cogs instantiated by registrations.
MaxLoads == 3
MaxPairEvents == 2

\* ------------------------------------------------------------------ values
\* Python values are tagged so that values of different types can be compared.
None == [kind |-> "none", v |-> ""]
StrVal(s) == [kind |-> "str", v |-> s]
BoolVal(b) == [kind |-> "bool", v |-> IF b THEN "True" ELSE "False"]
\* A discord.Emoji object (a custom emoji); a unicode emoji is a plain str.
EmojiObj(n) == [kind |-> "emoji", v |-> n]

\* The two literals of confirm (U+2705 and U+274C), and one custom emoji.
CheckMark == StrVal("check")
CrossMark == StrVal("cross")
StarEmoji == EmojiObj("star")
\* The text str() gives for the custom emoji, as a caller may list it.
StarText == StrVal("<:star:1>")

\* str(x) of an emoji: a str is itself, an Emoji object renders as <:name:id>.
Str(e) == IF e.kind = "emoji" THEN (IF e.v = "star" THEN "<:star:1>" ELSE e.v) ELSE e.v

\* An optional list argument: emotes=None or a list.
NoList == [isNone |-> TRUE, list |-> <<>>]
ListOf(s) == [isNone |-> FALSE, list |-> s]

SelfUser == "bot"
Users == {"bot", "U", "V"}
Targets == {"U", "bot"}
\* The channel every call of the model is made in, and another one.
CallChannel == "C"
Channels == {"C", "D"}
\* The prompt's message id, and the id of some other message.
PromptId == "prompt"
MessageIds == {"prompt", "other"}
\* What a reaction event can carry.
ReactionEmojis == {CheckMark, CrossMark, StarEmoji}
\* The emote arguments get_reaction is called with.
EmoteArgs == {NoList, ListOf(<<>>), ListOf(<<CheckMark, CrossMark>>),
              ListOf(<<StarText>>), ListOf(<<StarEmoji, CheckMark>>)}
Contents == {"hello", "bye"}

\* PreMessage.delete_after: None or a number.
NoDelay == [isNone |-> TRUE, n |-> 0]
Delay(n) == [isNone |-> FALSE, n |-> n]
\* forbid_premessage: None or a PreMessage, of which delete_after matters.
NoPreMessage == [isNone |-> TRUE, delete_after |-> NoDelay]
PreMessage(d) == [isNone |-> FALSE, delete_after |-> d]
ForbidArgs == {NoPreMessage, PreMessage(NoDelay), PreMessage(Delay(5)), PreMessage(Delay(30))}

VARIABLES
    \* -- one call of confirm / get_reaction / get_answer
    pc,          \* idle, sent, waiting, ended, cleaned, done
    call,        \* the call's arguments
    how,         \* how the wait ended: resolved, timeout, cancelled, error
    event,       \* the reaction event that resolved the wait
    respond,     \* index in log of the message that resolved the wait, 0 for None
    emoji,       \* get_reaction's local
    outcome,     \* none, returned, raised (what reached the caller)
    result,      \* the value returned to the caller
    noticeDelay, \* forbid_premessage.delete_after after check_message built the filter
    \* -- the chat
    prompt,      \* none, live, deleted (by the call), gone (deleted by somebody else)
    reactions,   \* reactions on the prompt: <<user, emoji>>
    log,         \* the messages created since the call began
    tasks,       \* coroutines scheduled with asyncio.ensure_future, not yet run
    nEvents,
    \* -- history
    cleanupRuns, \* runs of the finally block
    delCalls,    \* try_delete(message) calls made by cleanup
    clearCalls,  \* message.clear_reactions calls made by cleanup
    lastEvt,     \* the last reaction event a pending wait evaluated
    \* -- the vote webhook
    auth, dispatched, responses, lastReq,
    \* -- the cog registry
    cogs, disabled_cogs, nextId, loadError,
    lastCls,     \* the class handed to the last registration
    \* -- two waits pending at the same time, and the first of them alone
    pairPc,      \* idle, running
    waits,       \* the two waits' arguments
    together,    \* how each wait stands when both are pending
    alone,       \* how the first wait stands when it is the only one
    plog,        \* the events dispatched
    pnotices     \* forbid notices scheduled, not yet posted

waitVars == <<pc, call, how, event, respond, emoji, outcome, result, noticeDelay,
              prompt, reactions, log, tasks, nEvents,
              cleanupRuns, delCalls, clearCalls, lastEvt>>
voteVars == <<auth, dispatched, responses, lastReq>>
cogVars == <<cogs, disabled_cogs, nextId, loadError, lastCls>>
pairVars == <<pairPc, waits, together, alone, plog, pnotices>>
vars == <<waitVars, voteVars, cogVars, pairVars>>

NoCall == [op |-> "none", target |-> "U", timeout |-> FALSE, delete_after |-> FALSE,
           emotes |-> NoList, forbid |-> FALSE, forbid_premessage |-> NoPreMessage]
NoEvent == [emoji |-> None, user |-> "", message |-> ""]
NoEvt == [seen |-> FALSE, user |-> "", message |-> "", emoji |-> None, verdict |-> FALSE,
          remove |-> FALSE]

ReactionMode == call.op \in {"get_reaction", "confirm"}


\* ------------------------------------------------ helpers of discordplus.lib
\* try_add_reaction(message, emotes): the bot reacts with every listed emote;
\* a listed "<:name:id>" text becomes a reaction with that custom emoji.
AsReaction(e) == IF e = StarText THEN StarEmoji ELSE e
try_add_reaction(emotes) ==
    IF emotes.isNone THEN {}
    ELSE {<<SelfUser, AsReaction(emotes.list[i])>> : i \in 1..Len(emotes.list)}

\* try_delete(message): deletes it; a message already gone is not an error.
try_delete(state) == IF state = "live" THEN "deleted" ELSE state
\* try_delete on a logged message.
try_delete_msg(m) == IF m.gone THEN m ELSE [m EXCEPT !.deleted = TRUE]

\* ---------------------------------------------------------------- filters
\* check_reaction comparing the emoji itself with the listed emotes, without str().
check_reaction_NoStr(message, target, emotes, rmessage, user, remoji) ==
    [remove |-> rmessage = message /\ user # SelfUser,
     result |-> IF user # target \/ rmessage # message
                THEN FALSE
                ELSE \/ emotes.isNone
                     \/ Len(emotes.list) = 0
                     \/ remoji \in {emotes.list[i] : i \in 1..Len(emotes.list)}]

\* check_reaction that removes every reaction on the prompt, the bot's too.
check_reaction_RemoveAny(message, target, emotes, rmessage, user, remoji) ==
    [remove |-> rmessage = message,
     result |-> IF user # target \/ rmessage # message
                THEN FALSE
                ELSE \/ emotes.isNone
                     \/ Len(emotes.list) = 0
                     \/ Str(remoji) \in {Str(emotes.list[i]) : i \in 1..Len(emotes.list)}]

\* check_reaction(message, target, emotes) applied to (reaction, user):
\* remove is the scheduled reaction.remove(user), result is what check returns.
check_reaction(message, target, emotes, rmessage, user, remoji) ==
    [remove |-> rmessage = message /\ user # SelfUser,
     result |-> IF user # target \/ rmessage # message
                THEN FALSE
                ELSE \/ emotes.isNone
                     \/ Len(emotes.list) = 0
                     \/ Str(remoji) \in {Str(emotes.list[i]) : i \in 1..Len(emotes.list)}]

\* The floor check_message puts under the notice's delete_after.
MinNoticeDelay == 20

\* Python's max(a, b) with b a number: None cannot be ordered (TypeError).
PyMax(a, b) ==
    IF a.isNone THEN [ok |-> FALSE, val |-> NoDelay]
    ELSE [ok |-> TRUE, val |-> Delay(IF a.n > b THEN a.n ELSE b)]

\* check_message, the part run when the filter is built: the default notice,
\* then forbid_premessage.delete_after = max(forbid_premessage.delete_after, 20).
check_message_build(forbid, forbid_premessage) ==
    IF forbid
    THEN LET fp == IF forbid_premessage.isNone THEN PreMessage(NoDelay)
                   ELSE forbid_premessage
         IN  PyMax(fp.delete_after, MinNoticeDelay)
    ELSE [ok |-> TRUE, val |-> NoDelay]

\* check_message without the channel comparison.
check_message_AnyChannel(forbid, channel, target, m) ==
    IF forbid
    THEN IF m.author \notin {target, SelfUser}
         THEN [foreign |-> TRUE, result |-> FALSE]
         ELSE [foreign |-> FALSE, result |-> m.author = target]
    ELSE [foreign |-> FALSE, result |-> m.author = target]

\* check_message whose forbid branch does not exempt the bot's own messages.
check_message_SelfForeign(forbid, channel, target, m) ==
    IF forbid
    THEN IF m.channel = channel /\ m.author # target
         THEN [foreign |-> TRUE, result |-> FALSE]
         ELSE [foreign |-> FALSE, result |-> m.channel = channel /\ m.author = target]
    ELSE [foreign |-> FALSE, result |-> m.channel = channel /\ m.author = target]

\* check_message that never takes the forbid branch.
check_message_ForbidIgnored(forbid, channel, target, m) ==
    [foreign |-> FALSE, result |-> m.channel = channel /\ m.author = target]

\* check_message, the filter applied to a message: foreign is the scheduled
\* try_delete(message) and forbid_premessage.send(channel).
check_message(forbid, channel, target, m) ==
    IF forbid
    THEN IF m.channel = channel /\ m.author \notin {target, SelfUser}
         THEN [foreign |-> TRUE, result |-> FALSE]
         ELSE [foreign |-> FALSE, result |-> m.channel = channel /\ m.author = target]
    ELSE [foreign |-> FALSE, result |-> m.channel = channel /\ m.author = target]

\* ----------------------------------------------------------------- state
Task(t, i, user, e) == [t |-> t, i |-> i, user |-> user, emoji |-> e]
Msg(author, channel, content) ==
    [author |-> author, channel |-> channel, content |-> content, deleted |-> FALSE,
     gone |-> FALSE, cls |-> "unseen", fdel |-> 0, fnotice |-> 0]

InitWait ==
    /\ pc = "idle" /\ call = NoCall /\ how = "none" /\ event = NoEvent
    /\ respond = 0 /\ emoji = None /\ outcome = "none" /\ result = None
    /\ noticeDelay = NoDelay
    /\ prompt = "none" /\ reactions = {} /\ log = <<>> /\ tasks = {} /\ nEvents = 0
    /\ cleanupRuns = 0 /\ delCalls = 0 /\ clearCalls = 0 /\ lastEvt = NoEvt

\* ------------------------------------------------------------ the calls
\* The first segment of each call: await premessage.send(channel).
Begin(c) ==
    /\ pc = "idle"
    /\ pc' = "sent" /\ call' = c /\ prompt' = "live"
    /\ UNCHANGED <<how, event, respond, emoji, outcome, result, noticeDelay,
                   reactions, log, tasks, nEvents,
                   cleanupRuns, delCalls, clearCalls, lastEvt>>
    /\ UNCHANGED <<voteVars, cogVars, pairVars>>

get_reaction(target, timeout, delete_after, emotes) ==
    Begin([op |-> "get_reaction", target |-> target, timeout |-> timeout,
           delete_after |-> delete_after, emotes |-> emotes,
           forbid |-> FALSE, forbid_premessage |-> NoPreMessage])

\* confirm calls get_reaction with the two literals.
confirm(target, timeout, delete_after) ==
    Begin([op |-> "confirm", target |-> target, timeout |-> timeout,
           delete_after |-> delete_after, emotes |-> ListOf(<<CheckMark, CrossMark>>),
           forbid |-> FALSE, forbid_premessage |-> NoPreMessage])

get_answer(target, timeout, delete_after, forbid, forbid_premessage) ==
    Begin([op |-> "get_answer", target |-> target, timeout |-> timeout,
           delete_after |-> delete_after, emotes |-> NoList,
           forbid |-> forbid, forbid_premessage |-> forbid_premessage])

\* get_reaction after the prompt is sent: the bot's own reactions are added,
\* then wait_for registers the listener with the filter.
ReactionWaitStart ==
    /\ pc = "sent" /\ ReactionMode
    /\ reactions' = IF prompt = "live" THEN reactions \cup try_add_reaction(call.emotes)
                    ELSE reactions
    /\ pc' = "waiting"
    /\ UNCHANGED <<call, how, event, respond, emoji, outcome, result, noticeDelay,
                   prompt, log, tasks, nEvents,
                   cleanupRuns, delCalls, clearCalls, lastEvt>>
    /\ UNCHANGED <<voteVars, cogVars, pairVars>>

\* A user adds a reaction; a registered reaction wait evaluates its filter.
ReactionAdd(user, rmessage, remoji) ==
    /\ ReactionMode /\ pc # "idle"
    /\ nEvents < MaxEvents
    /\ rmessage = PromptId => prompt = "live" /\ <<user, remoji>> \notin reactions
    /\ nEvents' = nEvents + 1
    /\ reactions' = IF rmessage = PromptId THEN reactions \cup {<<user, remoji>>}
                    ELSE reactions
    /\ IF pc = "waiting"
       THEN LET r == check_reaction(PromptId, call.target, call.emotes,
                                    rmessage, user, remoji)
            IN  /\ tasks' = IF r.remove THEN tasks \cup {Task("remove", 0, user, remoji)}
                            ELSE tasks
                /\ lastEvt' = [seen |-> TRUE, user |-> user, message |-> rmessage,
                               emoji |-> remoji, verdict |-> r.result,
                               remove |-> r.remove]
                /\ IF r.result
                   THEN /\ pc' = "ended" /\ how' = "resolved"
                        /\ event' = [emoji |-> remoji, user |-> user, message |-> rmessage]
                   ELSE UNCHANGED <<pc, how, event>>
       ELSE UNCHANGED <<tasks, lastEvt, pc, how, event>>
    /\ UNCHANGED <<call, respond, emoji, outcome, result, noticeDelay, prompt, log,
                   cleanupRuns, delCalls, clearCalls>>
    /\ UNCHANGED <<voteVars, cogVars, pairVars>>

\* asyncio.wait_for gives up: TimeoutError is raised at the await.
Timeout ==
    /\ pc = "waiting" /\ call.timeout
    /\ pc' = "ended" /\ how' = "timeout"
    /\ UNCHANGED <<call, event, respond, emoji, outcome, result, noticeDelay,
                   prompt, reactions, log, tasks, nEvents,
                   cleanupRuns, delCalls, clearCalls, lastEvt>>
    /\ UNCHANGED <<voteVars, cogVars, pairVars>>

\* The awaiting task is cancelled: CancelledError is raised at the await.
Cancel ==
    /\ pc = "waiting"
    /\ pc' = "ended" /\ how' = "cancelled"
    /\ UNCHANGED <<call, event, respond, emoji, outcome, result, noticeDelay,
                   prompt, reactions, log, tasks, nEvents,
                   cleanupRuns, delCalls, clearCalls, lastEvt>>
    /\ UNCHANGED <<voteVars, cogVars, pairVars>>

\* The branch get_reaction's finally block takes.
finally_branch_Inverted(delete_after) == IF delete_after THEN "clear" ELSE "delete"
finally_branch(delete_after) == IF delete_after THEN "delete" ELSE "clear"

\* confirm's return value for the emoji get_reaction returned.
confirm_value_Swapped(e) == IF e = None THEN None ELSE BoolVal(e = CrossMark)
confirm_value(e) == IF e = None THEN None ELSE BoolVal(e = CheckMark)

\* get_reaction's finally block, entered with or without an exception.
ReactionFinally ==
    /\ pc = "ended" /\ ReactionMode
    /\ emoji' = IF how = "resolved" THEN event.emoji ELSE None
    /\ cleanupRuns' = cleanupRuns + 1
    /\ IF finally_branch(call.delete_after) = "delete"
       THEN /\ prompt' = try_delete(prompt)
            /\ delCalls' = delCalls + 1
            /\ UNCHANGED <<reactions, clearCalls>>
       ELSE /\ reactions' = {}
            /\ clearCalls' = clearCalls + 1
            /\ UNCHANGED <<prompt, delCalls>>
    /\ pc' = "cleaned"
    /\ UNCHANGED <<call, how, event, respond, outcome, result, noticeDelay,
                   log, tasks, nEvents, lastEvt>>
    /\ UNCHANGED <<voteVars, cogVars, pairVars>>

\* After the finally block: the pending exception goes on to the caller, or
\* emoji is returned; confirm turns a returned emoji into a bool.
ReactionReturn ==
    /\ pc = "cleaned" /\ ReactionMode
    /\ pc' = "done"
    /\ IF how = "resolved"
       THEN /\ outcome' = "returned"
            /\ result' = IF call.op = "confirm" THEN confirm_value(emoji) ELSE emoji
       ELSE /\ outcome' = "raised"
            /\ result' = None
    /\ UNCHANGED <<call, how, event, respond, emoji, noticeDelay,
                   prompt, reactions, log, tasks, nEvents,
                   cleanupRuns, delCalls, clearCalls, lastEvt>>
    /\ UNCHANGED <<voteVars, cogVars, pairVars>>

\* A scheduled reaction.remove(user) runs.
RemoveReactionTask(t) ==
    /\ t \in tasks /\ t.t = "remove"
    /\ tasks' = tasks \ {t}
    /\ reactions' = IF prompt = "live" THEN reactions \ {<<t.user, t.emoji>>} ELSE reactions
    /\ UNCHANGED <<pc, call, how, event, respond, emoji, outcome, result, noticeDelay,
                   prompt, log, nEvents, cleanupRuns, delCalls, clearCalls, lastEvt>>
    /\ UNCHANGED <<voteVars, cogVars, pairVars>>


\* ------------------------------------------------------------ get_answer
\* get_answer after the prompt is sent: check_message builds the filter (it
\* raises inside the try when max() fails), then wait_for registers it.
AnswerWaitStart ==
    /\ pc = "sent" /\ call.op = "get_answer"
    /\ LET b == check_message_build(call.forbid, call.forbid_premessage)
       IN  IF b.ok
           THEN /\ pc' = "waiting" /\ noticeDelay' = b.val /\ how' = how
           ELSE /\ pc' = "ended" /\ how' = "error" /\ noticeDelay' = noticeDelay
    /\ UNCHANGED <<call, event, respond, emoji, outcome, result,
                   prompt, reactions, log, tasks, nEvents,
                   cleanupRuns, delCalls, clearCalls, lastEvt>>
    /\ UNCHANGED <<voteVars, cogVars, pairVars>>

\* A dispatch that keeps evaluating the filter of a wait that has ended.
Dispatch_ListenerStays(m, others) ==
    LET i == Len(log) + 1
        waiting == pc \in {"waiting", "ended", "done"} /\ call.op = "get_answer"
        r == check_message(call.forbid, CallChannel, call.target, m)
        cls == IF ~waiting THEN "unseen"
               ELSE IF r.foreign THEN "foreign"
               ELSE IF r.result THEN "qualifies" ELSE "ignore"
    IN  /\ log' = Append(log, [m EXCEPT !.cls = cls,
                                        !.fdel = IF cls = "foreign" THEN 1 ELSE 0,
                                        !.fnotice = IF cls = "foreign" THEN 1 ELSE 0])
        /\ tasks' = IF cls = "foreign"
                    THEN others \cup {Task("delete", i, "", None), Task("notice", i, "", None)}
                    ELSE others
        /\ IF pc = "waiting" /\ r.result
           THEN pc' = "ended" /\ how' = "resolved" /\ respond' = i
           ELSE UNCHANGED <<pc, how, respond>>

\* Client.dispatch('message', m): m is appended to the log; a registered
\* message wait evaluates its filter on it.  others are the tasks that stay.
Dispatch(m, others) ==
    LET i == Len(log) + 1
        waiting == pc = "waiting" /\ call.op = "get_answer"
        r == check_message(call.forbid, CallChannel, call.target, m)
        cls == IF ~waiting THEN "unseen"
               ELSE IF r.foreign THEN "foreign"
               ELSE IF r.result THEN "qualifies" ELSE "ignore"
    IN  /\ log' = Append(log, [m EXCEPT !.cls = cls,
                                        !.fdel = IF cls = "foreign" THEN 1 ELSE 0,
                                        !.fnotice = IF cls = "foreign" THEN 1 ELSE 0])
        /\ tasks' = IF cls = "foreign"
                    THEN others \cup {Task("delete", i, "", None), Task("notice", i, "", None)}
                    ELSE others
        /\ IF waiting /\ r.result
           THEN pc' = "ended" /\ how' = "resolved" /\ respond' = i
           ELSE UNCHANGED <<pc, how, respond>>

\* Somebody posts a message.
MessageCreate(author, channel, content) ==
    /\ call.op = "get_answer" /\ pc # "idle"
    /\ nEvents < MaxEvents
    /\ nEvents' = nEvents + 1
    /\ Dispatch(Msg(author, channel, content), tasks)
    /\ UNCHANGED <<call, event, emoji, outcome, result, noticeDelay, prompt, reactions,
                   cleanupRuns, delCalls, clearCalls, lastEvt>>
    /\ UNCHANGED <<voteVars, cogVars, pairVars>>

\* A scheduled forbid_premessage.send(channel) runs: the bot posts the notice,
\* which is a message event like any other.
NoticeTask(t) ==
    /\ t \in tasks /\ t.t = "notice"
    /\ Dispatch(Msg(SelfUser, CallChannel, "notice"), tasks \ {t})
    /\ UNCHANGED <<call, event, emoji, outcome, result, noticeDelay, prompt, reactions,
                   nEvents, cleanupRuns, delCalls, clearCalls, lastEvt>>
    /\ UNCHANGED <<voteVars, cogVars, pairVars>>

\* A scheduled try_delete(message) of a foreign message runs.
DeleteTask(t) ==
    /\ t \in tasks /\ t.t = "delete"
    /\ tasks' = tasks \ {t}
    /\ log' = [log EXCEPT ![t.i] = try_delete_msg(@)]
    /\ UNCHANGED <<pc, call, how, event, respond, emoji, outcome, result, noticeDelay,
                   prompt, reactions, nEvents, cleanupRuns, delCalls, clearCalls, lastEvt>>
    /\ UNCHANGED <<voteVars, cogVars, pairVars>>

\* A finally block that deletes the prompt and leaves the reply.
AnswerFinally_PromptOnly ==
    /\ pc = "ended" /\ call.op = "get_answer"
    /\ cleanupRuns' = cleanupRuns + 1
    /\ IF call.delete_after
       THEN /\ prompt' = try_delete(prompt)
            /\ delCalls' = delCalls + 1
            /\ UNCHANGED log
       ELSE UNCHANGED <<prompt, delCalls, log>>
    /\ outcome' = "returned"
    /\ result' = IF how = "resolved" THEN StrVal(log[respond].content) ELSE None
    /\ pc' = "done"
    /\ UNCHANGED <<call, how, event, respond, emoji, noticeDelay, reactions, tasks,
                   nEvents, clearCalls, lastEvt>>
    /\ UNCHANGED <<voteVars, cogVars, pairVars>>

\* A get_answer whose return follows the finally block: a pending exception
\* goes on to the caller.
AnswerFinally_ReturnAfter ==
    /\ pc = "ended" /\ call.op = "get_answer"
    /\ cleanupRuns' = cleanupRuns + 1
    /\ IF call.delete_after
       THEN /\ prompt' = try_delete(prompt)
            /\ delCalls' = delCalls + 1
            /\ log' = IF respond # 0 THEN [log EXCEPT ![respond] = try_delete_msg(@)] ELSE log
       ELSE UNCHANGED <<prompt, delCalls, log>>
    /\ outcome' = IF how = "resolved" THEN "returned" ELSE "raised"
    /\ result' = IF how = "resolved" THEN StrVal(log[respond].content) ELSE None
    /\ pc' = "done"
    /\ UNCHANGED <<call, how, event, respond, emoji, noticeDelay, reactions, tasks,
                   nEvents, clearCalls, lastEvt>>
    /\ UNCHANGED <<voteVars, cogVars, pairVars>>

\* get_answer's finally block: the deletions, then return content, which
\* discards a pending exception.
AnswerFinally ==
    /\ pc = "ended" /\ call.op = "get_answer"
    /\ cleanupRuns' = cleanupRuns + 1
    /\ IF call.delete_after
       THEN /\ prompt' = try_delete(prompt)
            /\ delCalls' = delCalls + 1
            /\ log' = IF respond # 0 THEN [log EXCEPT ![respond] = try_delete_msg(@)] ELSE log
       ELSE UNCHANGED <<prompt, delCalls, log>>
    /\ outcome' = "returned"
    /\ result' = IF how = "resolved" THEN StrVal(log[respond].content) ELSE None
    /\ pc' = "done"
    /\ UNCHANGED <<call, how, event, respond, emoji, noticeDelay, reactions, tasks,
                   nEvents, clearCalls, lastEvt>>
    /\ UNCHANGED <<voteVars, cogVars, pairVars>>

\* Somebody other than the call deletes the prompt (i = 0) or the reply the
\* wait resolved on, while the call is still running.
MessageDelete(i) ==
    /\ pc \in {"sent", "waiting", "ended"}
    /\ nEvents < MaxEvents
    /\ nEvents' = nEvents + 1
    /\ IF i = 0
       THEN /\ prompt = "live"
            /\ prompt' = "gone" /\ reactions' = {}
            /\ UNCHANGED log
       ELSE /\ i = respond /\ ~log[i].gone /\ ~log[i].deleted
            /\ log' = [log EXCEPT ![i].gone = TRUE]
            /\ UNCHANGED <<prompt, reactions>>
    /\ UNCHANGED <<pc, call, how, event, respond, emoji, outcome, result, noticeDelay,
                   tasks, cleanupRuns, delCalls, clearCalls, lastEvt>>
    /\ UNCHANGED <<voteVars, cogVars, pairVars>>

NextWait ==
    \/ \E target \in Targets, timeout \in BOOLEAN, delete_after \in BOOLEAN, emotes \in EmoteArgs :
           get_reaction(target, timeout, delete_after, emotes)
    \/ \E target \in Targets, timeout \in BOOLEAN, delete_after \in BOOLEAN :
           confirm(target, timeout, delete_after)
    \/ \E target \in Targets, timeout \in BOOLEAN, delete_after \in BOOLEAN :
           \/ get_answer(target, timeout, delete_after, FALSE, NoPreMessage)
           \/ \E forbid_premessage \in ForbidArgs :
                  get_answer(target, timeout, delete_after, TRUE, forbid_premessage)
    \/ ReactionWaitStart
    \/ \E user \in Users, rmessage \in MessageIds, remoji \in ReactionEmojis :
           ReactionAdd(user, rmessage, remoji)
    \/ Timeout
    \/ Cancel
    \/ ReactionFinally
    \/ ReactionReturn
    \/ \E t \in tasks : RemoveReactionTask(t)
    \/ AnswerWaitStart
    \/ \E author \in Users, channel \in Channels, content \in Contents :
           MessageCreate(author, channel, content)
    \/ \E t \in tasks : NoticeTask(t)
    \/ \E t \in tasks : DeleteTask(t)
    \/ AnswerFinally
    \/ \E i \in 0..MaxEvents : MessageDelete(i)

\* ------------------------------------------- two waits at the same time
\* Two calls are awaiting wait_for at once; every event is dispatched to the
\* listeners registered.  The run of the first wait with the second one
\* absent is kept beside it (alone), fed the same events.
WaitArgs ==
    [mode : {"reaction"}, channel : Channels, target : Users, forbid : {FALSE}]
        \cup [mode : {"message"}, channel : Channels, target : Users, forbid : BOOLEAN]
NoWait == [mode |-> "none", channel |-> "", target |-> "", forbid |-> FALSE]
Pending == [how |-> "none", ev |-> 0, val |-> None]
PairEmotes == ListOf(<<CheckMark, CrossMark>>)
PairEmojis == {CheckMark, StarEmoji}
Quiet == [act |-> FALSE, notice |-> FALSE, result |-> FALSE]

MessageEvent(author, channel, world) ==
    [kind |-> "message", author |-> author, channel |-> channel, content |-> "hello",
     on |-> 0, emoji |-> None, world |-> world, delT |-> FALSE, delS |-> FALSE]
\* A reaction of user on the prompt of wait number on.
ReactionEvent(user, on, remoji) ==
    [kind |-> "reaction", author |-> user, channel |-> "", content |-> "",
     on |-> on, emoji |-> remoji, world |-> "both", delT |-> FALSE, delS |-> FALSE]

\* The filter of wait number k applied to an event: act is the deletion or
\* removal it schedules, notice the notice, result what check returns.
wait_check(w, k, e) ==
    IF w.mode = "message" /\ e.kind = "message"
    THEN LET r == check_message(w.forbid, w.channel, w.target, e)
         IN  [act |-> r.foreign, notice |-> r.foreign, result |-> r.result]
    ELSE IF w.mode = "reaction" /\ e.kind = "reaction"
    THEN LET r == check_reaction(k, w.target, PairEmotes, e.on, e.author, e.emoji)
         IN  [act |-> r.remove, notice |-> FALSE, result |-> r.result]
    ELSE Quiet

\* What the resolved call returns: respond.content or event[0].emoji.
wait_value(e) == IF e.kind = "message" THEN StrVal(e.content) ELSE e.emoji

InitPair ==
    /\ pairPc = "idle" /\ waits = <<NoWait, NoWait>>
    /\ together = <<Pending, Pending>> /\ alone = Pending
    /\ plog = <<>> /\ pnotices = {}

\* Both calls have sent their prompts and registered their listeners.  The
\* first wait is in the call channel, for the user U or for the bot.
PairBegin(w1, w2) ==
    /\ pairPc = "idle"
    /\ w1.channel = CallChannel /\ w1.target \in Targets
    /\ pairPc' = "running" /\ waits' = <<w1, w2>>
    /\ UNCHANGED <<together, alone, plog, pnotices>>
    /\ UNCHANGED <<waitVars, voteVars, cogVars>>

\* Client.dispatch of e to the pending listeners, where both waits are
\* registered (toBoth) and where the first one is alone (toAlone).
PairDispatch(e, toBoth, toAlone, others) ==
    LET i == Len(plog) + 1
        T == [k \in 1..2 |-> IF toBoth /\ together[k].how = "none"
                              THEN wait_check(waits[k], k, e) ELSE Quiet]
        S == IF toAlone /\ alone.how = "none" THEN wait_check(waits[1], 1, e) ELSE Quiet
        resolved == [how |-> "resolved", ev |-> i, val |-> wait_value(e)]
    IN  /\ plog' = Append(plog, [e EXCEPT !.delT = T[1].act \/ T[2].act, !.delS = S.act])
        /\ together' = [k \in 1..2 |-> IF T[k].result THEN resolved ELSE together[k]]
        /\ alone' = IF S.result THEN resolved ELSE alone
        /\ pnotices' = others
               \cup {[world |-> "both", by |-> k, about |-> i] : k \in {j \in 1..2 : T[j].notice}}
               \cup (IF S.notice THEN {[world |-> "alone", by |-> 1, about |-> i]} ELSE {})

EnvEvents == Cardinality({i \in 1..Len(plog) : plog[i].world = "both"})

PairMessage(author, channel) ==
    /\ pairPc = "running" /\ EnvEvents < MaxPairEvents
    /\ PairDispatch(MessageEvent(author, channel, "both"), TRUE, TRUE, pnotices)
    /\ UNCHANGED <<pairPc, waits>>
    /\ UNCHANGED <<waitVars, voteVars, cogVars>>

PairReaction(user, on, remoji) ==
    /\ pairPc = "running" /\ EnvEvents < MaxPairEvents
    /\ PairDispatch(ReactionEvent(user, on, remoji), TRUE, TRUE, pnotices)
    /\ UNCHANGED <<pairPc, waits>>
    /\ UNCHANGED <<waitVars, voteVars, cogVars>>

\* A scheduled forbid_premessage.send(channel) of wait number by runs: the
\* notice is a message of the bot in that wait's channel, dispatched wherever
\* it was scheduled.
PairNotice(by, about) ==
    LET tb == [world |-> "both", by |-> by, about |-> about]
        ta == [world |-> "alone", by |-> by, about |-> about]
        world == IF tb \in pnotices /\ ta \in pnotices THEN "all"
                 ELSE IF tb \in pnotices THEN "both" ELSE "alone"
    IN  /\ pairPc = "running"
        /\ tb \in pnotices \/ ta \in pnotices
        /\ PairDispatch(MessageEvent(SelfUser, waits[by].channel, world),
                        tb \in pnotices, ta \in pnotices, pnotices \ {tb, ta})
        /\ UNCHANGED <<pairPc, waits>>
        /\ UNCHANGED <<waitVars, voteVars, cogVars>>

\* The timer of the second wait fires: from here on the first wait is the
\* only one pending.  (The first wait's own timer is the same with and without
\* the second wait.)
PairTimeout ==
    /\ pairPc = "running"
    /\ together[2].how = "none"
    /\ together' = [together EXCEPT ![2].how = "timeout"]
    /\ UNCHANGED <<pairPc, waits, alone, plog, pnotices>>
    /\ UNCHANGED <<waitVars, voteVars, cogVars>>

NextPair ==
    \/ \E w1 \in WaitArgs, w2 \in WaitArgs : PairBegin(w1, w2)
    \/ \E author \in Users, channel \in Channels : PairMessage(author, channel)
    \/ \E user \in Users, on \in 1..2, remoji \in PairEmojis : PairReaction(user, on, remoji)
    \/ \E by \in 1..2, about \in 1..(2 * MaxPairEvents) : PairNotice(by, about)
    \/ PairTimeout

\* ---------------------------------------------------------- API.vote
\* A request's parsed body: request.json is None without a JSON body, else any
\* JSON value; request.form and request.args are multi-dicts.
NoJson == [kind |-> "none", hasType |-> FALSE, type |-> ""]
EmptyMap == [kind |-> "map", hasType |-> FALSE, type |-> ""]
TypeMap(t) == [kind |-> "map", hasType |-> TRUE, type |-> t]
\* A non-empty mapping with no 'type' key.
OtherMap == [kind |-> "map", hasType |-> FALSE, type |-> "x"]
\* A non-empty JSON array.
JsonList == [kind |-> "list", hasType |-> FALSE, type |-> "x"]
Types == {"upvote", "test", "other"}
Maps == {EmptyMap, OtherMap} \cup {TypeMap(t) : t \in Types}
JsonValues == {NoJson, JsonList} \cup Maps
AuthValues == {None, StrVal("secret"), StrVal("guess")}

\* Python truth of a body value: None and empty containers are false.
Truthy(x) == x.kind # "none" /\ x # EmptyMap
\* request.json or request.form or request.args or {}
vote_data(json, form, args) ==
    IF Truthy(json) THEN json ELSE IF Truthy(form) THEN form
    ELSE IF Truthy(args) THEN args ELSE EmptyMap

\* data.get('type', None): a list has no get (AttributeError).
data_get_type(data) ==
    IF data.kind = "list" THEN [ok |-> FALSE, v |-> None]
    ELSE [ok |-> TRUE, v |-> IF data.hasType THEN StrVal(data.type) ELSE None]

NoRequest == [seen |-> FALSE, credential |-> None, req_auth |-> None, data |-> EmptyMap,
              status |-> 0, before |-> 0]

InitVote == auth = None /\ dispatched = <<>> /\ responses = <<>> /\ lastReq = NoRequest

set_auth(a) ==
    /\ auth' = a
    /\ UNCHANGED <<dispatched, responses, lastReq>>
    /\ UNCHANGED <<waitVars, cogVars, pairVars>>

\* The handler's verdict: the status it replies and the event it dispatches.
\* An exception leaving the view function is answered 500 by Flask.
vote_result(credential, req_auth, data) ==
    IF credential = req_auth /\ credential # None
    THEN LET t == data_get_type(data)
         IN  IF ~t.ok THEN [status |-> 500, events |-> <<>>]
             ELSE IF t.v = StrVal("upvote")
                  THEN [status |-> 200, events |-> <<[name |-> "vote", data |-> data]>>]
             ELSE IF t.v = StrVal("test")
                  THEN [status |-> 200, events |-> <<[name |-> "test_vote", data |-> data]>>]
             ELSE [status |-> 401, events |-> <<>>]
    ELSE [status |-> 401, events |-> <<>>]

vote(req_auth, json, form, args) ==
    /\ Len(responses) < MaxRequests
    /\ LET data == vote_data(json, form, args)
           r == vote_result(auth, req_auth, data)
       IN  /\ dispatched' = dispatched \o r.events
           /\ responses' = Append(responses, r.status)
           /\ lastReq' = [seen |-> TRUE, credential |-> auth, req_auth |-> req_auth,
                          data |-> data, status |-> r.status, before |-> Len(dispatched)]
    /\ UNCHANGED auth
    /\ UNCHANGED <<waitVars, cogVars, pairVars>>

NextVote ==
    \/ \E a \in AuthValues : set_auth(a)
    \/ \E req_auth \in AuthValues, json \in JsonValues, form \in Maps, args \in Maps :
           vote(req_auth, json, form, args)

\* ------------------------------------------------------- the cog registry
\* A class is known by its qualified name, the key of Bot.cogs and of
\* cogs_status; its two markers are set when the class is defined.
CogPlusClass(n) == [name |-> n, base |-> "CogPlus", disabled |-> FALSE, beta |-> FALSE]
OtherClass(n) == [name |-> n, base |-> "object", disabled |-> FALSE, beta |-> FALSE]
\* The decorators CogPlus.disabled and CogPlus.beta.
disabled(cls) == IF cls.base = "CogPlus" THEN [cls EXCEPT !.disabled = TRUE] ELSE cls
beta(cls) == IF cls.base = "CogPlus" THEN [cls EXCEPT !.beta = TRUE] ELSE cls

API == CogPlusClass("API")
Classes == {CogPlusClass("Plain"), beta(CogPlusClass("Beta")),
            disabled(CogPlusClass("Off")), disabled(beta(CogPlusClass("BetaOff"))),
            OtherClass("Other")}

NoClass == [name |-> "", base |-> "", disabled |-> FALSE, beta |-> FALSE]

InitCogs ==
    /\ cogs = {} /\ disabled_cogs = <<>> /\ nextId = 1 /\ loadError = FALSE
    /\ lastCls = NoClass

\* Bot.add_cog: the cog is stored under its name.
add_cog(cog) == {c \in cogs : c.cls.name # cog.cls.name} \cup {cog}

\* load_cog that attaches every cog, whatever its __disabled__ says.
load_cog_AttachAlways(cls) ==
    /\ nextId <= MaxLoads
    /\ lastCls' = cls
    /\ IF cls.base = "CogPlus"
       THEN /\ cogs' = add_cog([cls |-> cls, id |-> nextId])
            /\ nextId' = nextId + 1
            /\ loadError' = FALSE
            /\ UNCHANGED disabled_cogs
       ELSE /\ loadError' = TRUE
            /\ UNCHANGED <<cogs, disabled_cogs, nextId>>
    /\ UNCHANGED auth
    /\ UNCHANGED <<waitVars, dispatched, responses, lastReq, pairVars>>

\* load_cog without the issubclass test: any class is instantiated.
load_cog_NoTypeCheck(cls) ==
    /\ nextId <= MaxLoads
    /\ lastCls' = cls
    /\ LET cog == [cls |-> cls, id |-> nextId]
       IN  IF cog.cls.disabled
           THEN disabled_cogs' = Append(disabled_cogs, cog) /\ UNCHANGED cogs
           ELSE cogs' = add_cog(cog) /\ UNCHANGED disabled_cogs
    /\ nextId' = nextId + 1
    /\ loadError' = FALSE
    /\ UNCHANGED auth
    /\ UNCHANGED <<waitVars, dispatched, responses, lastReq, pairVars>>

load_cog(cls) ==
    /\ nextId <= MaxLoads
    /\ lastCls' = cls
    /\ IF cls.base = "CogPlus"
       THEN LET cog == [cls |-> cls, id |-> nextId]
            IN  /\ IF cog.cls.disabled
                   THEN disabled_cogs' = Append(disabled_cogs, cog) /\ UNCHANGED cogs
                   ELSE cogs' = add_cog(cog) /\ UNCHANGED disabled_cogs
                /\ nextId' = nextId + 1
                /\ loadError' = FALSE
       ELSE /\ loadError' = TRUE
            /\ UNCHANGED <<cogs, disabled_cogs, nextId>>
    /\ UNCHANGED auth
    /\ UNCHANGED <<waitVars, dispatched, responses, lastReq, pairVars>>

\* The decorator load_cog_with_args returns: the same, with constructor arguments.
load_cog_with_args(cls) ==
    /\ nextId <= MaxLoads
    /\ lastCls' = cls
    /\ IF cls.base = "CogPlus"
       THEN LET cog == [cls |-> cls, id |-> nextId]
            IN  /\ IF cog.cls.disabled
                   THEN disabled_cogs' = Append(disabled_cogs, cog) /\ UNCHANGED cogs
                   ELSE cogs' = add_cog(cog) /\ UNCHANGED disabled_cogs
                /\ nextId' = nextId + 1
                /\ loadError' = FALSE
       ELSE /\ loadError' = TRUE
            /\ UNCHANGED <<cogs, disabled_cogs, nextId>>
    /\ UNCHANGED auth
    /\ UNCHANGED <<waitVars, dispatched, responses, lastReq, pairVars>>

\* CogLib.activate_api: the API cog is attached with add_cog, then set_auth.
activate_api(vote_auth) ==
    /\ nextId <= MaxLoads
    /\ cogs' = add_cog([cls |-> API, id |-> nextId])
    /\ nextId' = nextId + 1
    /\ auth' = vote_auth
    /\ lastCls' = API /\ loadError' = FALSE
    /\ UNCHANGED disabled_cogs
    /\ UNCHANGED <<waitVars, dispatched, responses, lastReq, pairVars>>

AttachedNames == {c.cls.name : c \in cogs}
DisabledNames == {disabled_cogs[i].cls.name : i \in 1..Len(disabled_cogs)}
Attached(n) == CHOOSE c \in cogs : c.cls.name = n
\* The last entry of the disabled list with a name: dict() keeps the last pair.
LastDisabled(n) ==
    disabled_cogs[CHOOSE i \in 1..Len(disabled_cogs) :
                      /\ disabled_cogs[i].cls.name = n
                      /\ \A j \in (i + 1)..Len(disabled_cogs) : disabled_cogs[j].cls.name # n]

\* cogs_status that lists the attached cogs only.
cogs_status_AttachedOnly ==
    [n \in AttachedNames |-> IF Attached(n).cls.beta THEN "BetaEnabled" ELSE "Enabled"]

\* The property cogs_status: the attached cogs' pairs, extended with the
\* disabled list's, made a dict.
cogs_status ==
    [n \in AttachedNames \cup DisabledNames |->
        IF n \in DisabledNames
        THEN (IF LastDisabled(n).cls.beta THEN "BetaDisabled" ELSE "Disabled")
        ELSE (IF Attached(n).cls.beta THEN "BetaEnabled" ELSE "Enabled")]

NextCogs ==
    \/ \E cls \in Classes : load_cog(cls)
    \/ \E cls \in Classes : load_cog_with_args(cls)
    \/ \E vote_auth \in AuthValues : activate_api(vote_auth)

Init == InitWait /\ InitVote /\ InitCogs /\ InitPair

Spec == Init /\ [][NextWait]_vars
\* The event loop runs every coroutine that can go on, and the timer of
\* asyncio.wait_for fires when a timeout was given.
Fairness ==
    /\ WF_vars(ReactionWaitStart) /\ WF_vars(AnswerWaitStart)
    /\ WF_vars(Timeout)
    /\ WF_vars(ReactionFinally) /\ WF_vars(ReactionReturn) /\ WF_vars(AnswerFinally)
SpecLive == Init /\ [][NextWait]_vars /\ Fairness
SpecVote == Init /\ [][NextVote]_vars
SpecPair == Init /\ [][NextPair]_vars
SpecCogs == Init /\ [][NextCogs]_vars


\* ================================================================ claims
Seen(i) == log[i].cls # "unseen"
Matches(i) == log[i].channel = CallChannel /\ log[i].author = call.target
NoticesPosted == {i \in 1..Len(log) : log[i].author = SelfUser /\ log[i].content = "notice"}
NoticeTasks == {t \in tasks : t.t = "notice"}

\* C1: when the wait times out, get_reaction returns None to its caller and
\* confirm returns None; the timeout never reaches the caller as an exception.
C1_TimeoutReturnsNone ==
    (ReactionMode /\ pc = "done" /\ how = "timeout")
        => (outcome = "returned" /\ result = None)

\* What the counters of the cleanup must be at each point of a reaction call.
C2_State ==
    ReactionMode =>
        /\ pc \in {"sent", "waiting", "ended"} =>
               cleanupRuns = 0 /\ delCalls = 0 /\ clearCalls = 0
        /\ pc \in {"cleaned", "done"} =>
               /\ cleanupRuns = 1
               /\ how \in {"resolved", "timeout", "cancelled"}
               /\ IF call.delete_after
                  THEN delCalls = 1 /\ clearCalls = 0 /\ prompt \in {"deleted", "gone"}
                  ELSE clearCalls = 1 /\ delCalls = 0
\* What a run of the cleanup must do.
C2_Step ==
    (ReactionMode /\ cleanupRuns' # cleanupRuns) =>
        /\ pc = "ended" /\ pc' = "cleaned"
        /\ IF call.delete_after
           THEN prompt' = try_delete(prompt) /\ prompt' # "live" /\ reactions' = reactions
           ELSE reactions' = {} /\ prompt' = prompt
\* C2: in get_reaction the cleanup runs exactly once on every exit path of the
\* wait (resolved, timed out, raised) and never before the wait has ended; with
\* delete_after the prompt is deleted and its reactions are not cleared,
\* otherwise the reactions are cleared and the prompt is not deleted.
C2_CleanupExactlyOnce == []C2_State /\ [][C2_Step]_vars
C2_Witness ==
    /\ call.op = "get_reaction" /\ pc = "done" /\ how = "cancelled"
    /\ call.delete_after /\ prompt = "deleted" /\ cleanupRuns = 1

\* The rule a reaction event must satisfy to qualify.
C3_Qualifies(e) ==
    /\ e.message = PromptId
    /\ e.user = call.target
    /\ \/ call.emotes.isNone
       \/ call.emotes.list = <<>>
       \/ \E i \in 1..Len(call.emotes.list) : Str(call.emotes.list[i]) = Str(e.emoji)
\* C3: a reaction event seen by a pending reaction wait qualifies iff it is on
\* the prompt, the reactor is the target, and the emote set is absent or empty
\* or holds the reaction's symbol; any other reaction leaves the wait pending.
C3_ReactionFilter ==
    lastEvt.seen =>
        /\ lastEvt.verdict <=> C3_Qualifies(lastEvt)
        /\ lastEvt.verdict =>
               /\ how = "resolved"
               /\ event = [emoji |-> lastEvt.emoji, user |-> lastEvt.user,
                           message |-> lastEvt.message]
        /\ ~lastEvt.verdict => how \in {"none", "timeout", "cancelled"}
C3_Witness ==
    /\ lastEvt.seen /\ lastEvt.verdict /\ how = "resolved"
    /\ lastEvt.emoji = StarEmoji /\ call.emotes = ListOf(<<StarText>>)

\* C4: confirm waits with the emote set {check, cross}; the target's check on
\* the prompt returns true, the target's cross returns false, nothing else
\* resolves it, and without delete_after the prompt's reactions are cleared.
C4_Confirm ==
    call.op = "confirm" =>
        /\ call.emotes = ListOf(<<CheckMark, CrossMark>>)
        /\ how = "resolved" =>
               /\ event.user = call.target
               /\ event.message = PromptId
               /\ event.emoji \in {CheckMark, CrossMark}
        /\ (pc = "done" /\ how = "resolved") =>
               /\ outcome = "returned"
               /\ event.emoji = CheckMark => result = BoolVal(TRUE)
               /\ event.emoji = CrossMark => result = BoolVal(FALSE)
               /\ ~call.delete_after => clearCalls = 1 /\ delCalls = 0
C4_Witness ==
    /\ call.op = "confirm" /\ pc = "done" /\ how = "resolved"
    /\ event.emoji = CrossMark /\ result = BoolVal(FALSE) /\ ~call.delete_after

\* The first message a pending wait saw that is in its channel and by its target.
C5_FirstQualifying ==
    CHOOSE i \in 1..Len(log) :
        /\ Seen(i) /\ Matches(i)
        /\ \A j \in 1..(i - 1) : ~(Seen(j) /\ Matches(j))
\* C5: without a forbid policy a message resolves a get_answer wait iff it is
\* in the wait's channel and by the target; any other message is ignored with
\* no side effect; the call returns the first qualifying message's text, or
\* None when the timeout comes first.
C5_AnswerNoForbid ==
    (call.op = "get_answer" /\ ~call.forbid) =>
        /\ \A i \in 1..Len(log) : Seen(i) =>
               /\ log[i].cls = "qualifies" <=> Matches(i)
               /\ ~Matches(i) =>
                      /\ log[i].cls = "ignore"
                      /\ log[i].fdel = 0 /\ log[i].fnotice = 0 /\ ~log[i].deleted
        /\ tasks = {}
        /\ how = "resolved" <=> \E i \in 1..Len(log) : Seen(i) /\ Matches(i)
        /\ how = "resolved" => respond = C5_FirstQualifying
        /\ (pc = "done" /\ how = "resolved") =>
               outcome = "returned" /\ result = StrVal(log[C5_FirstQualifying].content)
        /\ (pc = "done" /\ how = "timeout") => outcome = "returned" /\ result = None
C5_Witness ==
    /\ call.op = "get_answer" /\ ~call.forbid /\ pc = "done" /\ how = "resolved"
    /\ Len(log) = 2 /\ log[1].cls = "ignore" /\ log[2].cls = "qualifies"
    /\ result = StrVal(log[2].content)

\* C6: under an active forbid policy a message in the wait's channel whose
\* author is neither the target nor the bot is foreign: it never resolves the
\* wait and triggers exactly one deletion of that message and exactly one
\* notice; a message in the channel from the target qualifies and triggers
\* neither.
C6_Forbid ==
    (call.op = "get_answer" /\ call.forbid) =>
        /\ \A i \in 1..Len(log) : Seen(i) =>
               /\ (log[i].channel = CallChannel /\ log[i].author \notin {call.target, SelfUser}) =>
                      /\ log[i].cls = "foreign"
                      /\ respond # i
                      /\ log[i].fdel = 1 /\ log[i].fnotice = 1
                      /\ (Task("delete", i, "", None) \in tasks) # log[i].deleted
               /\ Matches(i) =>
                      /\ log[i].cls = "qualifies"
                      /\ log[i].fdel = 0 /\ log[i].fnotice = 0
                      /\ Task("delete", i, "", None) \notin tasks
                      /\ Task("notice", i, "", None) \notin tasks
        /\ Cardinality(NoticeTasks) + Cardinality(NoticesPosted)
               = Cardinality({i \in 1..Len(log) : log[i].cls = "foreign"})
C6_Witness ==
    /\ call.op = "get_answer" /\ call.forbid /\ pc = "done" /\ how = "resolved"
    /\ \E i \in 1..Len(log) : log[i].cls = "foreign" /\ log[i].deleted /\ i < respond
    /\ NoticesPosted # {}

\* C7: get_answer with the forbid policy and the default notice: a message of
\* another user V in the channel is deleted and answered with the notice while
\* the wait stays pending, and the target's message that follows is returned.
C7_DefaultNotice ==
    (call.op = "get_answer" /\ call.forbid /\ call.forbid_premessage.isNone) =>
        /\ \A i \in 1..Len(log) :
               (log[i].cls = "foreign") => log[i].fdel = 1 /\ log[i].fnotice = 1
        /\ (pc = "done" /\ how \notin {"timeout", "cancelled"}) =>
               /\ how = "resolved" /\ outcome = "returned"
               /\ respond # 0 /\ Matches(respond)
               /\ result = StrVal(log[respond].content)


\* A request that must be accepted.
C8_Authorized(q) ==
    /\ q.credential # None
    /\ q.req_auth = q.credential
    /\ q.data.hasType /\ q.data.type \in {"upvote", "test"}
\* C8: POST /vote replies 200 and dispatches exactly one event ('vote' for
\* type "upvote", 'test_vote' for "test") iff a credential is configured, the
\* Authorization value equals it and type is one of the two; in every other
\* case it replies 401, dispatches nothing and changes no bot-side state.
C8_Vote ==
    lastReq.seen =>
        IF C8_Authorized(lastReq)
        THEN /\ lastReq.status = 200
             /\ Len(dispatched) = lastReq.before + 1
             /\ dispatched[Len(dispatched)].name
                    = (IF lastReq.data.type = "upvote" THEN "vote" ELSE "test_vote")
        ELSE /\ lastReq.status = 401
             /\ Len(dispatched) = lastReq.before

\* Every cog the registry holds, attached or not.
Known == cogs \cup {disabled_cogs[i] : i \in 1..Len(disabled_cogs)}
\* C9: after any registrations a cog whose class is flagged disabled is never
\* attached and is kept only in the disabled list, no cog is both attached and
\* in the disabled list, a disabled beta cog's status is BetaDisabled and an
\* attached cog with both flags false has status Enabled.
C9_Registry ==
    /\ \A c \in cogs : ~c.cls.disabled
    /\ \A i \in 1..Len(disabled_cogs) :
           /\ disabled_cogs[i].cls.disabled
           /\ disabled_cogs[i] \notin cogs
           /\ disabled_cogs[i].cls.name \notin AttachedNames
    /\ \A c \in Known :
           /\ c.cls.name \in DOMAIN cogs_status
           /\ (c.cls.disabled /\ c.cls.beta) => cogs_status[c.cls.name] = "BetaDisabled"
           /\ (c \in cogs /\ ~c.cls.disabled /\ ~c.cls.beta) =>
                  cogs_status[c.cls.name] = "Enabled"
C9_Witness ==
    /\ \E i \in 1..Len(disabled_cogs) : disabled_cogs[i].cls.beta
    /\ \E c \in cogs : c.cls.name = "Plain"
    /\ nextId > MaxLoads

\* The label of a cog by its attachment and its beta flag.
C10_Label(attached, isBeta) ==
    IF attached THEN (IF isBeta THEN "BetaEnabled" ELSE "Enabled")
    ELSE (IF isBeta THEN "BetaDisabled" ELSE "Disabled")
\* C10: cogs_status has an entry for every known cog, attached or not, and the
\* label depends on the beta flag and the attachment only: Enabled,
\* BetaEnabled, Disabled or BetaDisabled.
C10_Status ==
    /\ DOMAIN cogs_status = {c.cls.name : c \in Known}
    /\ \A c \in Known : cogs_status[c.cls.name] = C10_Label(c \in cogs, c.cls.beta)
C10_Witness ==
    /\ \E c \in cogs : c.cls.beta
    /\ \E c \in cogs : ~c.cls.beta
    /\ \E i \in 1..Len(disabled_cogs) : ~disabled_cogs[i].cls.beta

\* The registry holds instances of CogPlus subclasses only.
C14_State ==
    /\ lastCls # NoClass => (loadError <=> lastCls.base # "CogPlus")
    /\ \A c \in cogs : c.cls.base = "CogPlus"
    /\ \A i \in 1..Len(disabled_cogs) : disabled_cogs[i].cls.base = "CogPlus"
\* A registration that raised attached nothing, disabled nothing and
\* instantiated nothing.
C14_Step ==
    (loadError' /\ lastCls'.base # "CogPlus") =>
        (cogs' = cogs /\ disabled_cogs' = disabled_cogs /\ nextId' = nextId)
\* C14: registering a class that is not a CogPlus subclass, by load_cog or by
\* load_cog_with_args, raises TypeError and leaves the registry as it was:
\* nothing is instantiated, attached or added to the disabled list.
C14_NonCogRejected == []C14_State /\ [][C14_Step]_vars
C14_Witness ==
    /\ loadError /\ lastCls = OtherClass("Other")
    /\ cogs # {} /\ disabled_cogs # <<>> /\ nextId = 3

\* C15: a reaction a pending reaction wait sees is removed when it is on the
\* prompt and its user is neither the bot nor the target, whatever its symbol;
\* a reaction of the bot's own user is never removed, and neither is a
\* reaction on another message.
C15_ForeignReactionRemoved ==
    lastEvt.seen =>
        /\ (lastEvt.message = PromptId /\ lastEvt.user \notin {SelfUser, call.target})
               => /\ lastEvt.remove
                  /\ pc = "waiting" =>
                        \/ Task("remove", 0, lastEvt.user, lastEvt.emoji) \in tasks
                        \/ <<lastEvt.user, lastEvt.emoji>> \notin reactions
        /\ lastEvt.user = SelfUser => ~lastEvt.remove
        /\ lastEvt.message # PromptId => ~lastEvt.remove
        /\ \A t \in tasks : t.t = "remove" => t.user # SelfUser
C15_Witness ==
    /\ lastEvt.seen /\ lastEvt.message = PromptId /\ lastEvt.user = "V"
    /\ call.target = "U" /\ lastEvt.remove /\ pc = "waiting"
    /\ call.emotes = ListOf(<<CheckMark, CrossMark>>) /\ lastEvt.emoji = StarEmoji
    /\ <<"V", StarEmoji>> \notin reactions

\* C13: get_answer's cleanup.  With delete_after the prompt is deleted, and so
\* is the qualifying reply when there is one (after a timeout only the prompt);
\* without delete_after the call deletes neither.  A deletion of a message
\* that is already gone does not raise and does not change the value returned.
C13_AnswerCleanup ==
    (call.op = "get_answer" /\ pc = "done") =>
        /\ cleanupRuns = 1 /\ outcome = "returned"
        /\ result = IF how = "resolved" THEN StrVal(log[respond].content) ELSE None
        /\ how # "resolved" => respond = 0
        /\ IF call.delete_after
           THEN /\ prompt \in {"deleted", "gone"}
                /\ respond # 0 => (log[respond].deleted # log[respond].gone)
           ELSE /\ prompt \in {"live", "gone"}
                /\ respond # 0 => ~log[respond].deleted
        /\ \A i \in 1..Len(log) : (i # respond /\ log[i].deleted) => log[i].cls = "foreign"
C13_Witness ==
    /\ call.op = "get_answer" /\ pc = "done" /\ call.delete_after
    /\ how = "resolved" /\ prompt = "gone" /\ log[respond].deleted
    /\ result = StrVal("hello")
C13_WitnessTimeout ==
    /\ call.op = "get_answer" /\ pc = "done" /\ call.delete_after
    /\ how = "timeout" /\ prompt = "deleted" /\ Len(log) = 1 /\ ~log[1].deleted

\* C18: once the prompt is sent, get_answer lets no exception raised while the
\* filter is built or the event is awaited reach its caller: it returns the
\* content captured so far, None when no qualifying message was received.
C18_AnswerSwallows ==
    (call.op = "get_answer" /\ pc = "done") =>
        /\ outcome = "returned"
        /\ how \in {"timeout", "cancelled", "error"} => (respond = 0 /\ result = None)
        /\ how = "resolved" => result = StrVal(log[respond].content)
C18_Witness ==
    /\ call.op = "get_answer" /\ pc = "done" /\ how = "error"
    /\ outcome = "returned" /\ result = None /\ Len(log) = 2

\* The delay the caller's notice was given, none counting as no delay at all.
C16_Given ==
    IF call.forbid_premessage.isNone \/ call.forbid_premessage.delete_after.isNone
    THEN 0
    ELSE call.forbid_premessage.delete_after.n
\* C16: with the forbid policy active the notice carries an auto-delete delay
\* of max(delay, 20) for every delay the caller's notice was given, none at
\* all and the default notice included.
C16_NoticeDelayFloor ==
    (call.op = "get_answer" /\ call.forbid /\ pc \notin {"idle", "sent"}) =>
        noticeDelay = Delay(IF C16_Given > MinNoticeDelay THEN C16_Given ELSE MinNoticeDelay)

\* C17: a wait resolves at most once, and once it has ended, resolved or timed
\* out, its filter is not evaluated again: no later reaction on the prompt is
\* removed, no later foreign message is deleted or answered with a notice.
C17_EndedWaitIsInert ==
    [][how # "none" =>
          /\ how' = how /\ event' = event /\ respond' = respond
          /\ tasks' \subseteq tasks
          /\ lastEvt' = lastEvt
          /\ \A i \in 1..Len(log) :
                 /\ log'[i].cls = log[i].cls
                 /\ log'[i].fdel = log[i].fdel /\ log'[i].fnotice = log[i].fnotice
          /\ \A i \in (Len(log) + 1)..Len(log') :
                 log'[i].cls = "unseen" /\ log'[i].fdel = 0 /\ log'[i].fnotice = 0]_vars
C17_Witness ==
    /\ call.op = "get_answer" /\ call.forbid /\ pc = "done" /\ how = "resolved"
    /\ respond = 1 /\ Len(log) = 2
    /\ log[2].author = "V" /\ log[2].channel = CallChannel /\ log[2].cls = "unseen"
    /\ tasks = {}

\* C19: in get_reaction a reaction of the target on the prompt with a symbol
\* of the emote set, made at any moment after the prompt is sent and before
\* the timeout, resolves the wait: none is on the prompt of a wait that is
\* still pending.  Stated for the calls that attach initial emotes.
C19_NoReactionLost ==
    (/\ ReactionMode /\ pc = "waiting" /\ call.target # SelfUser
     /\ ~call.emotes.isNone /\ Len(call.emotes.list) > 0) =>
        \A e \in ReactionEmojis :
            <<call.target, e>> \in reactions =>
                ~check_reaction(PromptId, call.target, call.emotes,
                                PromptId, call.target, e).result

\* C20: under the forbid policy with a target other than the bot, a message
\* the bot itself posts in the channel, the notice above all, is never
\* deleted, never answered with a notice and never resolves the wait; so the
\* notices posted never outnumber the foreign messages seen.
C20_BotMessagesExempt ==
    (call.op = "get_answer" /\ call.forbid /\ call.target # SelfUser) =>
        /\ \A i \in 1..Len(log) :
               log[i].author = SelfUser =>
                   /\ log[i].cls \in {"unseen", "ignore"}
                   /\ log[i].fdel = 0 /\ log[i].fnotice = 0 /\ ~log[i].deleted
                   /\ respond # i
                   /\ \A t \in tasks : t.i # i
        /\ Cardinality(NoticesPosted) + Cardinality(NoticeTasks)
               <= Cardinality({i \in 1..Len(log) : log[i].cls = "foreign"})
C20_Witness ==
    /\ call.op = "get_answer" /\ call.forbid /\ call.target = "U" /\ pc = "waiting"
    /\ Len(log) = 2 /\ log[1].cls = "foreign"
    /\ log[2].author = SelfUser /\ log[2].content = "notice" /\ log[2].cls = "ignore"
    /\ NoticeTasks = {}

\* C12: a call of get_reaction, confirm or get_answer with a timeout does not
\* hang: under a fair timer it completes even when no qualifying event
\* arrives, and its caller ends with a value or with None.
C12_CompletesWithValue ==
    (pc = "sent" /\ call.timeout) ~>
        (pc = "done" /\ (how \in {"resolved", "timeout"} => outcome = "returned"))
\* The part of C12 about completion alone.
C12_Completes == (pc = "sent" /\ call.timeout) ~> (pc = "done")

\* The first wait stands the same with the second one pending and without it:
\* same resolving event, same value, and the resolving event's message or
\* reaction deleted or removed in both runs or in neither.
C11_SameOutcome ==
    /\ together[1] = alone
    /\ alone.how = "resolved" => plog[alone.ev].delT = plog[alone.ev].delS
C11_Forbids(w) == w.mode = "message" /\ w.forbid
\* C11: two waits pending at the same time on different channels or for
\* different targets do not interfere: the outcome of one is the same whether
\* or not the other is pending.
C11_Independent ==
    (/\ pairPc = "running"
     /\ waits[1].channel # waits[2].channel \/ waits[1].target # waits[2].target)
        => C11_SameOutcome
\* C11, amended: two waits pending at the same time on different channels, or
\* in one channel for different targets when neither is a get_answer wait with
\* the forbid policy active, do not interfere.
C11_IndependentUnlessForbid ==
    (/\ pairPc = "running"
     /\ \/ waits[1].channel # waits[2].channel
        \/ /\ waits[1].target # waits[2].target
           /\ ~C11_Forbids(waits[1]) /\ ~C11_Forbids(waits[2]))
        => C11_SameOutcome
C11_Witness ==
    /\ pairPc = "running"
    /\ waits[1] = [mode |-> "message", channel |-> "C", target |-> "U", forbid |-> FALSE]
    /\ waits[2] = [mode |-> "message", channel |-> "D", target |-> "V", forbid |-> TRUE]
    /\ Len(plog) >= 2 /\ plog[1].author = "U" /\ plog[1].channel = "D" /\ plog[1].delT
    /\ together[1].how = "resolved" /\ together[1].ev = 2 /\ ~plog[2].delT
    /\ together[2].how = "none"

====
